---- MODULE Spec2Model ----
(***************************************************************************)
(* football_stat_ingestion: the rate-limited API client, the ingestion     *)
(* state ledger, the persistent store and the collectors that tie them     *)
(* together (src/ingestion).                                               *)
(*                                                                         *)
(* Time is discrete: `now` counts whole quota windows' worth of wall clock *)
(* (one unit = one hour, so Hour = 1).  Sleeps shorter than a unit (the    *)
(* 429 cooldown, the exponential backoff) are logged in seconds in         *)
(* `sleeps`; the clock itself moves by Tick and by the blocking sleep of   *)
(* wait_if_needed.                                                         *)
(***************************************************************************)
EXTENDS Integers, Sequences, FiniteSets

\* ---------------------------------------------------------------- bounds
MaxTime == 3
MaxRetries == 3
MaxCalls == 4
requests_per_hour == 2
MaxId == 2
MaxOps == 2
MaxRuns == 2
PageSize == 1

\* ------------------------------------------------------ program constants
Hour == 1
Cooldown == 60
BackoffBase == 2
LastxFlush == 5
DetailsFlush == 10
NameLimit == 50

VARIABLES
    now,                 \* datetime.now(), in hours
    current_hour_start,  \* RateLimiter.current_hour_start
    calls_this_hour,     \* RateLimiter.calls_this_hour
    limiter_file,        \* rate_limiter_state.json
    op,                  \* the operation the last step performed
    ret,                 \* what the last call returned
    get_pc,              \* APIClient.get: "idle", "retrying" or "returned"
    attempt,             \* APIClient.get: the loop variable
    max_retries,         \* APIClient.get: the argument of the running call
    responses,           \* APIClient.get: outcomes of the attempts of this call
    sleeps,              \* APIClient.get: seconds slept by this call, in order
    waits,               \* APIClient.get: wait_if_needed() invocations of this call
    before,              \* clock and limiter as the last direct limiter call found them
    window_calls,        \* record_request() calls since current_hour_start was set
    state,               \* IngestionState.state, the ledger in memory
    state_file,          \* <league>_<season>_state.json
    alive,               \* the ingestion process is running
    last_saved,          \* the ledger the last completed save() wrote
    ops,                 \* ledger calls made so far
    call,                \* stage and ids argument of the last ledger call
    api,                 \* what the upstream API serves
    prev_api,            \* what it served during the run before this one
    store,               \* the files of DataManager and GlobalDataManager
    clock,               \* datetime.now() at the resolution of _saved_at
    pc,                  \* run_ingestion: the collector to run next
    run,                 \* ingestion runs started so far
    snap,                \* ledger and store as this run, or this collector, found them
    mode,                \* "single" (ingest_single_league) or "bulk" (update_all_leagues)
    trace,               \* the collectors this run has executed, with what they returned
    requests,            \* the requests the last collector sent, in order
    dir,                 \* DataManager's directories, file name by file name
    dir_before,          \* the directories as the last save_* call found them
    saved,               \* the last save_* call: its arguments, file and outcome
    failing              \* the files of the store that cannot be written (disk I/O error)

limiter_vars == <<now, current_hour_start, calls_this_hour, limiter_file>>
client_vars == <<get_pc, attempt, max_retries, responses, sleeps, waits>>
ledger_vars == <<state, state_file, alive, last_saved, ops, call>>
run_vars == <<api, prev_api, store, clock, pc, run, snap, mode, trace, requests>>
dir_vars == <<dir, dir_before, saved, failing>>
vars == <<limiter_vars, op, ret, client_vars, before, window_calls, ledger_vars, run_vars,
          dir_vars>>

\* ------------------------------------------------------------ RateLimiter
\* The limiter together with the clock it reads, as one value.
Lim == [now |-> now, current_hour_start |-> current_hour_start,
        calls_this_hour |-> calls_this_hour, file |-> limiter_file]

SetLim(L) ==
    /\ now' = L.now
    /\ current_hour_start' = L.current_hour_start
    /\ calls_this_hour' = L.calls_this_hour
    /\ limiter_file' = L.file

\* Mutant: nothing is written.
save_state_skipped(L) == L

save_state(L) ==
    [L EXCEPT !.file = [current_hour_start |-> L.current_hour_start,
                        calls_this_hour |-> L.calls_this_hour]]

reset_hour(L) ==
    save_state([L EXCEPT !.current_hour_start = L.now, !.calls_this_hour = 0])

\* now >= current_hour_start + timedelta(hours=1); current_hour_start is never
\* None once the constructor has run (load_state always ends in a value).
window_over(L) == L.now >= L.current_hour_start + Hour

\* Mutant: the rollover check is forgotten.
can_make_request_no_rollover(L) ==
    [L |-> L, ret |-> IF L.calls_this_hour < requests_per_hour THEN "True" ELSE "False"]

can_make_request(L) ==
    IF window_over(L)
    THEN [L |-> reset_hour(L), ret |-> "True"]
    ELSE [L |-> L,
          ret |-> IF L.calls_this_hour < requests_per_hour THEN "True" ELSE "False"]

\* Mutant: the sleep is not followed by reset_hour().
wait_if_needed_no_reset(L, t2, t3) ==
    LET c == can_make_request(L)
        next_hour == L.current_hour_start + Hour
    IN  IF c.ret = "True"
        THEN [L |-> c.L, ret |-> "None"]
        ELSE IF next_hour - t2 >= 0
             THEN [L |-> [L EXCEPT !.now = t3], ret |-> "waited"]
             ELSE [L |-> [L EXCEPT !.now = t2], ret |-> "None"]

\* t2 is the clock at the second datetime.now() (line 98), t3 the clock when
\* time.sleep() returns.
wait_if_needed(L, t2, t3) ==
    LET c == can_make_request(L)
        next_hour == L.current_hour_start + Hour
    IN  IF c.ret = "True"
        THEN [L |-> c.L, ret |-> "None"]
        ELSE IF next_hour - t2 >= 0      \* wait_seconds = int(...) + 1 > 0
             THEN [L |-> reset_hour([L EXCEPT !.now = t3]), ret |-> "waited"]
             ELSE [L |-> [L EXCEPT !.now = t2], ret |-> "None"]

record_request(L) ==
    LET L1 == IF window_over(L) THEN reset_hour(L) ELSE L
    IN  save_state([L1 EXCEPT !.calls_this_hour = @ + 1])

\* RateLimiter.__init__ / load_state in a restarted process.
load_state(L) ==
    IF L.now < L.file.current_hour_start + Hour
    THEN [L EXCEPT !.current_hour_start = L.file.current_hour_start,
                   !.calls_this_hour = L.file.calls_this_hour]
    ELSE reset_hour([L EXCEPT !.current_hour_start = L.file.current_hour_start])

\* The clock values the two later reads of wait_if_needed can see.
LaterTimes(t) == {u \in t..MaxTime : TRUE}
WakeTimes(L, t2) ==
    LET next_hour == L.current_hour_start + Hour
        lo == IF t2 > next_hour THEN t2 ELSE next_hour
    IN  {u \in lo..(lo + 1) : u <= MaxTime + 1}

\* What a direct call of the limiter leaves for the record: the state it
\* found, and the count of record_request() calls in the window it leaves.
Snapshot(name) ==
    /\ before' = [op |-> name, now |-> now, current_hour_start |-> current_hour_start,
                  calls_this_hour |-> calls_this_hour]
    /\ window_calls' = (IF current_hour_start' # current_hour_start THEN 0 ELSE window_calls)
                       + (IF name = "record_request" THEN 1 ELSE 0)

Tick ==
    /\ now < MaxTime
    /\ now' = now + 1
    /\ op' = "tick"
    /\ UNCHANGED <<current_hour_start, calls_this_hour, limiter_file, ret, client_vars, before, window_calls, ledger_vars, run_vars, dir_vars>>

CanMakeRequest ==
    LET r == can_make_request(Lim)
    IN  /\ SetLim(r.L)
        /\ op' = "can_make_request"
        /\ ret' = r.ret
        /\ Snapshot("can_make_request")
        /\ UNCHANGED <<client_vars, ledger_vars, run_vars, dir_vars>>

WaitIfNeeded ==
    \E t2 \in LaterTimes(now) : \E t3 \in WakeTimes(Lim, t2) :
        LET r == wait_if_needed(Lim, t2, t3)
        IN  /\ SetLim(r.L)
            /\ op' = "wait_if_needed"
            /\ ret' = r.ret
            /\ Snapshot("wait_if_needed")
            /\ UNCHANGED <<client_vars, ledger_vars, run_vars, dir_vars>>

RecordRequest ==
    /\ calls_this_hour < MaxCalls \/ window_over(Lim)
    /\ SetLim(record_request(Lim))
    /\ op' = "record_request"
    /\ ret' = "None"
    /\ Snapshot("record_request")
    /\ UNCHANGED <<client_vars, ledger_vars, run_vars, dir_vars>>

RestartLimiter ==
    /\ SetLim(load_state(Lim))
    /\ op' = "load_state"
    /\ ret' = "None"
    /\ Snapshot("load_state")
    /\ UNCHANGED <<client_vars, ledger_vars, run_vars, dir_vars>>

\* -------------------------------------------------------------- APIClient
HttpStatuses == {"200", "429", "403", "404", "500"}
Failures == {"timeout", "connection_error"}
Outcomes == HttpStatuses \cup Failures

RECURSIVE Pow(_, _)
Pow(b, e) == IF e = 0 THEN 1 ELSE b * Pow(b, e - 1)

\* Mutant: the backoff sleep is not skipped on the last attempt.
attempt_body_sleep_on_last(L, a, m, outcome) ==
    LET L1 == IF outcome \in HttpStatuses THEN record_request(L) ELSE L
    IN  CASE outcome = "200" -> [L |-> L1, slept |-> <<>>, exit |-> "return", value |-> "json"]
          [] outcome = "429" -> [L |-> L1, slept |-> <<Cooldown>>, exit |-> "continue", value |-> "None"]
          [] outcome = "403" -> [L |-> L1, slept |-> <<>>, exit |-> "return", value |-> "None"]
          [] OTHER -> [L |-> L1, slept |-> <<Pow(BackoffBase, a)>>, exit |-> "continue", value |-> "None"]

\* Mutant: a 403 is retried like any other error status.
attempt_body_retry_403(L, a, m, outcome) ==
    LET L1 == IF outcome \in HttpStatuses THEN record_request(L) ELSE L
    IN  CASE outcome = "200" -> [L |-> L1, slept |-> <<>>, exit |-> "return", value |-> "json"]
          [] outcome = "429" -> [L |-> L1, slept |-> <<Cooldown>>, exit |-> "continue", value |-> "None"]
          [] OTHER ->
                IF a < m - 1
                THEN [L |-> L1, slept |-> <<Pow(BackoffBase, a)>>, exit |-> "continue", value |-> "None"]
                ELSE [L |-> L1, slept |-> <<>>, exit |-> "return", value |-> "None"]

\* Mutant: only a 200 is recorded.
attempt_body_record_200_only(L, a, m, outcome) ==
    LET L1 == IF outcome = "200" THEN record_request(L) ELSE L
    IN  CASE outcome = "200" -> [L |-> L1, slept |-> <<>>, exit |-> "return", value |-> "json"]
          [] outcome = "429" -> [L |-> L1, slept |-> <<Cooldown>>, exit |-> "continue", value |-> "None"]
          [] outcome = "403" -> [L |-> L1, slept |-> <<>>, exit |-> "return", value |-> "None"]
          [] OTHER ->
                IF a < m - 1
                THEN [L |-> L1, slept |-> <<Pow(BackoffBase, a)>>, exit |-> "continue", value |-> "None"]
                ELSE [L |-> L1, slept |-> <<>>, exit |-> "return", value |-> "None"]

\* Mutant: wait_if_needed() is called again after a 429.
attempt_body_wait_after_429(L, a, m, outcome) ==
    LET L1 == IF outcome \in HttpStatuses THEN record_request(L) ELSE L
    IN  CASE outcome = "200" -> [L |-> L1, slept |-> <<>>, exit |-> "return", value |-> "json"]
          [] outcome = "429" -> [L |-> wait_if_needed(L1, now, now).L, slept |-> <<Cooldown>>,
                                 exit |-> "continue", value |-> "None"]
          [] outcome = "403" -> [L |-> L1, slept |-> <<>>, exit |-> "return", value |-> "None"]
          [] OTHER ->
                IF a < m - 1
                THEN [L |-> L1, slept |-> <<Pow(BackoffBase, a)>>, exit |-> "continue", value |-> "None"]
                ELSE [L |-> L1, slept |-> <<>>, exit |-> "return", value |-> "None"]

\* One pass of the body of `for attempt in range(max_retries)` on `outcome`:
\* what it does to the limiter, what it sleeps, and how the pass ends
\* ("continue", or "return" with a value).
attempt_body(L, a, m, outcome) ==
    LET L1 == IF outcome \in HttpStatuses THEN record_request(L) ELSE L
    IN  CASE outcome = "200" -> [L |-> L1, slept |-> <<>>, exit |-> "return", value |-> "json"]
          [] outcome = "429" -> [L |-> L1, slept |-> <<Cooldown>>, exit |-> "continue", value |-> "None"]
          [] outcome = "403" -> [L |-> L1, slept |-> <<>>, exit |-> "return", value |-> "None"]
          [] OTHER ->
                IF a < m - 1
                THEN [L |-> L1, slept |-> <<Pow(BackoffBase, a)>>, exit |-> "continue", value |-> "None"]
                ELSE [L |-> L1, slept |-> <<>>, exit |-> "return", value |-> "None"]

Get(m) ==
    /\ get_pc # "retrying"
    /\ \E t2 \in LaterTimes(now) : \E t3 \in WakeTimes(Lim, t2) :
          SetLim(wait_if_needed(Lim, t2, t3).L)
    /\ get_pc' = "retrying"
    /\ attempt' = 0
    /\ max_retries' = m
    /\ responses' = <<>>
    /\ sleeps' = <<>>
    /\ waits' = 1
    /\ op' = "get"
    /\ ret' = "pending"
    /\ UNCHANGED <<before, window_calls, ledger_vars, run_vars, dir_vars>>

Attempt(outcome) ==
    /\ get_pc = "retrying"
    /\ LET b == attempt_body(Lim, attempt, max_retries, outcome)
           \* `continue` on the last pass falls out of the loop: return None
           over == b.exit = "return" \/ attempt + 1 >= max_retries
       IN  /\ SetLim(b.L)
           /\ sleeps' = sleeps \o b.slept
           /\ responses' = Append(responses, outcome)
           /\ attempt' = IF b.exit = "continue" THEN attempt + 1 ELSE attempt
           /\ get_pc' = IF over THEN "returned" ELSE "retrying"
           /\ ret' = IF over THEN b.value ELSE "pending"
    /\ op' = "attempt"
    /\ UNCHANGED <<max_retries, waits, before, window_calls, ledger_vars, run_vars, dir_vars>>

\* --------------------------------------------------------- IngestionState
Stages == {"league_stats", "league_table", "teams", "team_lastx", "matches",
           "match_details", "players", "referees", "h2h"}
\* The stages whose entry holds an ID list (team_ids, match_ids, player_ids or
\* referee_ids); `ids` stands for whichever key the entry has.
IdStages == {"teams", "team_lastx", "matches", "match_details", "players", "referees"}
IDs == 1..MaxId

None == <<>>
Some(x) == <<x>>

Range(seq) == {seq[i] : i \in 1..Len(seq)}

Min(S) == CHOOSE x \in S : \A y \in S : x <= y

\* sorted(list(S))
RECURSIVE sorted(_)
sorted(S) == IF S = {} THEN <<>> ELSE <<Min(S)>> \o sorted(S \ {Min(S)})

\* The initial ledger; started_at and last_updated, which nothing reads back,
\* are left out.
create_initial_state ==
    [status |-> "not_started",
     collections |-> [c \in Stages |->
        [status |-> "pending", total |-> 0, fetched |-> 0, ids |-> <<>>,
         api_calls |-> 0, generated |-> 0]],
     total_api_calls |-> 0]

AbsentFile == [kind |-> "absent", data |-> create_initial_state]
CorruptFile == [kind |-> "corrupt", data |-> create_initial_state]

\* open(state_file, 'w') + json.dump: written whole ("ok"); not opened, the
\* exception caught ("unwritten"); or truncated and left partly written, by an
\* exception that is caught or by the process dying in the write ("torn").
SaveOutcomes == {"ok", "unwritten", "torn"}

save(S, F, outcome) ==
    CASE outcome = "ok" -> [kind |-> "json", data |-> S]
      [] outcome = "torn" -> CorruptFile
      [] OTHER -> F

\* Mutant: the state file is ignored and every process starts a fresh ledger.
load_or_initialize_fresh(F) == create_initial_state

load_or_initialize(F) ==
    IF F.kind = "json" THEN F.data ELSE create_initial_state

mark_collection_complete(S, c) ==
    [S EXCEPT !.collections[c].status = "complete"]

mark_collection_in_progress(S, c) ==
    [S EXCEPT !.collections[c].status = "in_progress"]

\* Mutant: the ID list is overwritten with the new IDs instead of merged.
merge_ids_overwrite(existing, ids) == sorted(Range(ids))

\* existing = set(coll_state[key]); existing.update(ids); sorted(list(existing))
merge_ids(existing, ids) == sorted(Range(existing) \cup Range(ids))

\* Mutant: the calls are added to the stage's counter only.
update_collection_progress_stage_only(S, c, fetched, total, ids, api_calls) ==
    LET c0 == S.collections[c]
        c1 == [c0 EXCEPT !.fetched = fetched]
        c2 == IF total # None THEN [c1 EXCEPT !.total = total[1]] ELSE c1
        c3 == IF ids # None /\ c \in IdStages
              THEN [c2 EXCEPT !.ids = merge_ids(c2.ids, ids[1])]
              ELSE c2
        c4 == IF api_calls > 0 THEN [c3 EXCEPT !.api_calls = @ + api_calls] ELSE c3
    IN  [S EXCEPT !.collections[c] = c4]

\* total and ids are optional (None or Some(value)); ids is a list.
update_collection_progress(S, c, fetched, total, ids, api_calls) ==
    LET c0 == S.collections[c]
        c1 == [c0 EXCEPT !.fetched = fetched]
        c2 == IF total # None THEN [c1 EXCEPT !.total = total[1]] ELSE c1
        c3 == IF ids # None /\ c \in IdStages
              THEN [c2 EXCEPT !.ids = merge_ids(c2.ids, ids[1])]
              ELSE c2
        c4 == IF api_calls > 0 THEN [c3 EXCEPT !.api_calls = @ + api_calls] ELSE c3
    IN  [S EXCEPT !.collections[c] = c4,
                  !.total_api_calls = IF api_calls > 0 THEN @ + api_calls ELSE @]

mark_complete(S) == [S EXCEPT !.status = "complete"]

get_overall_status(S) ==
    IF \A c \in Stages : S.collections[c].status = "complete" THEN "complete"
    ELSE IF \E c \in Stages : S.collections[c].status \in {"in_progress", "complete"}
         THEN "in_progress"
         ELSE "not_started"

\* What the callers of SpecLedger pass in.
DrivenStages == {"matches", "h2h"}
IdLists == {sorted(X) : X \in SUBSET IDs} \cup {<<i, i>> : i \in IDs}
ProgressArgs ==
    {[fetched |-> 1, total |-> Some(1), ids |-> None, api_calls |-> 1]}
    \cup {[fetched |-> Len(l), total |-> None, ids |-> Some(l), api_calls |-> 0] : l \in IdLists}

\* A mutating call of the ledger: the change in memory, then save().
LedgerCall(name, c, ids, S, outcome) ==
    /\ alive
    /\ call' = [stage |-> c, ids |-> ids]
    /\ ops < MaxOps
    /\ ops' = ops + 1
    /\ state' = S
    /\ state_file' = save(S, state_file, outcome)
    /\ last_saved' = IF outcome = "ok" THEN S ELSE last_saved
    /\ alive' = TRUE
    /\ op' = name
    /\ UNCHANGED <<limiter_vars, ret, client_vars, before, window_calls, run_vars, dir_vars>>

MarkInProgress(c, outcome) ==
    LedgerCall("mark_collection_in_progress", c, None,
               mark_collection_in_progress(state, c), outcome)

MarkCollectionComplete(c, outcome) ==
    LedgerCall("mark_collection_complete", c, None,
               mark_collection_complete(state, c), outcome)

UpdateProgress(c, a, outcome) ==
    LedgerCall("update_collection_progress", c, a.ids,
               update_collection_progress(state, c, a.fetched, a.total, a.ids, a.api_calls),
               outcome)

MarkComplete(outcome) ==
    LedgerCall("mark_complete", "all", None, mark_complete(state), outcome)

\* The process is killed: between calls (the file is as the last save left it)
\* or inside the write of a save() (the file is truncated or partly written).
Kill(in_save) ==
    /\ alive
    /\ alive' = FALSE
    /\ state_file' = IF in_save THEN CorruptFile ELSE state_file
    /\ op' = "kill"
    /\ UNCHANGED <<limiter_vars, ret, client_vars, before, window_calls, state, last_saved, ops, call, run_vars, dir_vars>>

\* A new process: IngestionState.__init__ -> _load_or_initialize.
Restart ==
    /\ ~alive
    /\ alive' = TRUE
    /\ state' = load_or_initialize(state_file)
    /\ op' = "restart"
    /\ UNCHANGED <<limiter_vars, ret, client_vars, before, window_calls, state_file, last_saved, ops, call, run_vars, dir_vars>>

\* ------------------------------------------------------- the upstream API
\* What the API serves for the league and season being ingested: the teams,
\* players and referees endpoints each list the IDs 1..roster; a match is not
\* listed ("absent") or listed with a status; the per-ID endpoints (a team's
\* lastX, a match's details) answer success with empty data for the IDs in
\* nodata.  Every listed match is HomeTeam against AwayTeam.
MatchStatuses == {"absent", "incomplete", "complete"}
\* The page requests <<endpoint, page>> in `down` end without a response;
\* `pager` says whether the answers to page requests carry a pager.
PagedStages == {"teams", "matches", "players"}
Apis == [roster : 0..MaxId, matches : [IDs -> MatchStatuses], nodata : SUBSET {1},
         down : {{}}, pager : {TRUE}]
\* The schedule, which never changes: match 1 is 1 v 2, match 2 is 2 v 1,
\* match 3 is 1 v 3, match 4 is 3 v 2, ...
Fixture == [i \in IDs |->
    IF i % 2 = 1 THEN [homeID |-> 1, awayID |-> (i + 3) \div 2]
    ELSE [homeID |-> (i \div 2) + 1, awayID |-> i \div 2]]

league_roster(a) == [i \in 1..a.roster |-> i]
league_matches(a) == sorted({i \in IDs : a.matches[i] # "absent"})

\* The page p of a listing, and pager.get('max_page', 1).
Page(listed, p) ==
    SubSeq(listed, (p - 1) * PageSize + 1,
           IF p * PageSize < Len(listed) THEN p * PageSize ELSE Len(listed))
max_page(listed) ==
    IF listed = <<>> \/ ~api.pager THEN 1 ELSE (Len(listed) + PageSize - 1) \div PageSize

\* response.get('data', []) of a page request; a request that got no response
\* leaves the loop as an empty page does (break).
page_data(a, c, listed, p) == IF <<c, p>> \in a.down THEN <<>> ELSE Page(listed, p)

\* -------------------------------------------- DataManager, GlobalDataManager
\* A file is None (not there) or Some([data, saved_at]).  Files named by an
\* ID are keyed <<kind, id>>, the others <<kind, 0>>.
\* save_h2h, load_h2h: the lower ID first.
h2h_file_as_given(team_a_id, team_b_id) == <<team_a_id, team_b_id>>

h2h_file(team_a_id, team_b_id) ==
    IF team_a_id > team_b_id THEN <<team_b_id, team_a_id>> ELSE <<team_a_id, team_b_id>>

\* The files: <<kind, id>>, <<kind, 0>> for the one file of a kind, and
\* <<"h2h", a, b>> for a_vs_b.json.
SingleKinds == {"league_stats", "league_table", "btts_stats", "over25_stats"}
FileKeys == (IdStages \X IDs) \cup (SingleKinds \X {0})
            \cup {k \in {"h2h"} \X IDs \X IDs : k[2] < k[3]}
EmptyStore == [k \in FileKeys |-> None]

\* The world a collector works on: the ledger in memory (S), its file, the
\* store, the limiter (L) and the fine clock; what the collector returns
\* (ret), the requests it has sent (reqs), and the files that cannot be
\* written.
World ==
    [S |-> state, file |-> state_file, store |-> store, L |-> Lim, clock |-> clock,
     ret |-> "None", reqs |-> <<>>, failing |-> failing]

returns(W, value) == [W EXCEPT !.ret = value]

\* data['_saved_at'] = datetime.now().isoformat(); _save_json(file, data).
\* _save_json catches the exception of a write that fails and returns as
\* after a write that succeeded.
save_json(W, key, data) ==
    IF key \in W.failing THEN [W EXCEPT !.clock = @ + 1]
    ELSE [W EXCEPT !.store[key] = Some([data |-> data, saved_at |-> W.clock]),
                   !.clock = @ + 1]

load_json(W, key) == W.store[key]

\* get_all_team_ids, get_all_match_ids, ...: sorted IDs of the files of a kind
get_all_ids(W, kind) == sorted({i \in IDs : W.store[<<kind, i>>] # None})

\* As save_each, but leaving the records that already have a file alone.
RECURSIVE save_each_new_only(_, _, _, _)
save_each_new_only(W, kind, ids, data_of) ==
    IF ids = <<>> THEN W
    ELSE save_each_new_only(IF W.store[<<kind, Head(ids)>>] # None THEN W
                            ELSE save_json(W, <<kind, Head(ids)>>, data_of[Head(ids)]),
                            kind, Tail(ids), data_of)

\* for x in ids: save_<kind>(x, data_of[x])
RECURSIVE save_each(_, _, _, _)
save_each(W, kind, ids, data_of) ==
    IF ids = <<>> THEN W
    ELSE save_each(save_json(W, <<kind, Head(ids)>>, data_of[Head(ids)]),
                   kind, Tail(ids), data_of)

\* A call of the ledger from a collector: the change in memory, then save().
ledger(W, S1) == [W EXCEPT !.S = S1, !.file = save(S1, @, "ok")]

never_complete(S, c) == FALSE

is_collection_complete(S, c) == S.collections[c].status = "complete"

\* APIClient.get answered 200 at the first attempt: wait_if_needed (sleeping
\* to the window boundary when the quota is used up), then record_request.
request(W, endpoint, arg) ==
    LET next_hour == W.L.current_hour_start + Hour
        wake == IF W.L.now > next_hour THEN W.L.now ELSE next_hour
    IN  [W EXCEPT !.L = record_request(wait_if_needed(W.L, W.L.now, wake).L),
                  !.reqs = Append(@, <<endpoint, arg>>)]

\* Mutant: nothing is filtered out.
Without_nothing(seq, S) == seq

Without(seq, S) == LET keep(x) == x \notin S IN SelectSeq(seq, keep)

\* ------------------------------------------------------------- collectors
collect_league_file(W, c) ==
    LET W1 == ledger(W, mark_collection_in_progress(W.S, c))
        W2 == request(W1, c, 0)
        W3 == save_json(W2, <<c, 0>>, "league")
        W4 == ledger(W3, mark_collection_complete(W3.S, c))
    IN  returns(ledger(W4, update_collection_progress(W4.S, c, 1, Some(1), None, 1)),
                "True")

collect_league_stats(W) == collect_league_file(W, "league_stats")
collect_league_table(W) == collect_league_file(W, "league_table")

\* The while loop of collect_league_teams, from page p on.
RECURSIVE team_pages(_, _, _, _)
team_pages(W, p, already_fetched, all_teams) ==
    LET W1 == request(W, "teams", p)
        listed == league_roster(api)
        data == page_data(api, "teams", listed, p)
        new_teams == Without(data, already_fetched)
        W2 == save_each(W1, "teams", new_teams, [i \in IDs |-> "team"])
        all1 == all_teams \o new_teams
        already1 == already_fetched \cup Range(new_teams)
        W3 == ledger(W2, update_collection_progress(W2.S, "teams",
                  Cardinality(already1), Some(Cardinality(already1)), Some(all1), p))
    IN  IF data = <<>>
        THEN [W |-> W1, already_fetched |-> already_fetched, all_teams |-> all_teams]
        ELSE IF p >= max_page(listed)
             THEN [W |-> W3, already_fetched |-> already1, all_teams |-> all1]
             ELSE team_pages(W3, p + 1, already1, all1)

collect_league_teams(W) ==
    IF is_collection_complete(W.S, "teams") THEN returns(W, "True")
    ELSE LET W1 == ledger(W, mark_collection_in_progress(W.S, "teams"))
             already_fetched == Range(W1.S.collections["teams"].ids)
                                \cup Range(get_all_ids(W1, "teams"))
             r == team_pages(W1, 1, already_fetched, <<>>)
         IN  IF r.all_teams # <<>> \/ r.already_fetched # {}
             THEN returns(ledger(r.W, mark_collection_complete(r.W.S, "teams")), "True")
             ELSE returns(r.W, "False")

\* The for loop of collect_team_lastx over the teams still to do.
RECURSIVE lastx_loop(_, _, _, _, _, _)
lastx_loop(W, todo, total, existing, fetched_count, api_calls) ==
    IF todo = <<>>
    THEN [W |-> W, existing |-> existing, fetched_count |-> fetched_count,
          api_calls |-> api_calls]
    ELSE LET team_id == Head(todo)
             W1 == request(W, "team_lastx", team_id)
             has_data == team_id \notin api.nodata
             W2 == IF has_data THEN save_json(W1, <<"team_lastx", team_id>>, "lastx") ELSE W1
             fetched1 == IF has_data THEN fetched_count + 1 ELSE fetched_count
             existing1 == IF has_data THEN existing \cup {team_id} ELSE existing
             W3 == IF (api_calls + 1) % LastxFlush = 0
                   THEN ledger(W2, update_collection_progress(W2.S, "team_lastx",
                            fetched1, Some(total), Some(sorted(existing1)), api_calls + 1))
                   ELSE W2
         IN  lastx_loop(W3, Tail(todo), total, existing1, fetched1, api_calls + 1)

collect_team_lastx(W) ==
    LET team_ids == get_all_ids(W, "teams")
        W1 == ledger(W, mark_collection_in_progress(W.S, "team_lastx"))
        existing == Range(W1.S.collections["team_lastx"].ids)
        r == lastx_loop(W1, team_ids, Len(team_ids), existing, 0, 0)
        W2 == ledger(r.W, update_collection_progress(r.W.S, "team_lastx",
                  r.fetched_count, Some(Len(team_ids)), Some(sorted(r.existing)),
                  r.api_calls))
    IN  IF team_ids = <<>> THEN returns(W, "False")
        ELSE returns(ledger(W2, mark_collection_complete(W2.S, "team_lastx")), "True")

\* Mutant: the loop goes on past max_page, until a page is empty.
RECURSIVE refresh_pages_past_max_page(_, _, _, _, _, _, _)
refresh_pages_past_max_page(W, c, listed, data_of, p, all_ids, existing_from_disk) ==
    LET W1 == request(W, c, p)
        data == page_data(api, c, listed, p)
        W2 == save_each(W1, c, data, data_of)
        all1 == all_ids \cup Range(data)
        n == Cardinality(all1 \cup existing_from_disk)
        W3 == ledger(W2, update_collection_progress(W2.S, c, n, Some(n),
                                                    Some(sorted(all1)), p))
    IN  IF data = <<>> THEN [W |-> W1, all_ids |-> all_ids]
        ELSE refresh_pages_past_max_page(W3, c, listed, data_of, p + 1, all1,
                                         existing_from_disk)

\* The while loop of collect_league_matches and of collect_league_players,
\* from page p on: every listed record is saved again.
RECURSIVE refresh_pages(_, _, _, _, _, _, _)
refresh_pages(W, c, listed, data_of, p, all_ids, existing_from_disk) ==
    LET W1 == request(W, c, p)
        data == page_data(api, c, listed, p)
        W2 == save_each(W1, c, data, data_of)
        all1 == all_ids \cup Range(data)
        n == Cardinality(all1 \cup existing_from_disk)
        W3 == ledger(W2, update_collection_progress(W2.S, c, n, Some(n),
                                                    Some(sorted(all1)), p))
    IN  IF data = <<>> THEN [W |-> W1, all_ids |-> all_ids]
        ELSE IF p >= max_page(listed) THEN [W |-> W3, all_ids |-> all1]
             ELSE refresh_pages(W3, c, listed, data_of, p + 1, all1, existing_from_disk)

collect_refreshing(W, c, listed, data_of) ==
    LET W1 == ledger(W, mark_collection_in_progress(W.S, c))
        existing_from_disk == Range(get_all_ids(W1, c))
        r == refresh_pages(W1, c, listed, data_of, 1, {}, existing_from_disk)
    IN  IF r.all_ids # {} \/ Cardinality(r.all_ids \cup existing_from_disk) > 0
        THEN returns(ledger(r.W, mark_collection_complete(r.W.S, c)), "True")
        ELSE returns(r.W, "False")

collect_league_matches(W) ==
    collect_refreshing(W, "matches", league_matches(api), api.matches)

collect_league_players(W) ==
    collect_refreshing(W, "players", league_roster(api), [i \in IDs |-> "player"])

\* The for loop of collect_match_details over the matches still to fetch.
RECURSIVE details_loop(_, _, _, _, _, _)
details_loop(W, todo, total, already_fetched, fetched_count, api_calls) ==
    IF todo = <<>>
    THEN [W |-> W, already_fetched |-> already_fetched,
          fetched_count |-> fetched_count, api_calls |-> api_calls]
    ELSE LET match_id == Head(todo)
             W1 == request(W, "match", match_id)
             has_data == match_id \notin api.nodata
             W2 == IF has_data
                   THEN save_json(W1, <<"match_details", match_id>>, "details")
                   ELSE W1
             fetched1 == IF has_data THEN fetched_count + 1 ELSE fetched_count
             already1 == IF has_data THEN already_fetched \cup {match_id}
                         ELSE already_fetched
             W3 == IF (api_calls + 1) % DetailsFlush = 0
                   THEN ledger(W2, update_collection_progress(W2.S, "match_details",
                            fetched1, Some(total), Some(sorted(already1)), api_calls + 1))
                   ELSE W2
         IN  IF load_json(W, <<"matches", match_id>>) = None
             THEN details_loop(W, Tail(todo), total, already_fetched, fetched_count,
                               api_calls)
             ELSE details_loop(W3, Tail(todo), total, already1, fetched1, api_calls + 1)

collect_match_details(W) ==
    LET W1 == ledger(W, mark_collection_in_progress(W.S, "match_details"))
        all_match_ids == get_all_ids(W1, "matches")
        is_complete(id) == load_json(W1, <<"matches", id>>)[1].data = "complete"
        completed_match_ids == SelectSeq(all_match_ids, is_complete)
        already_fetched == Range(W1.S.collections["match_details"].ids)
                           \cup Range(get_all_ids(W1, "match_details"))
        matches_to_fetch == Without(completed_match_ids, already_fetched)
        r == details_loop(W1, matches_to_fetch, Len(completed_match_ids),
                          already_fetched, Cardinality(already_fetched), 0)
        W2 == ledger(r.W, update_collection_progress(r.W.S, "match_details",
                  r.fetched_count, Some(Len(completed_match_ids)),
                  Some(sorted(r.already_fetched)), r.api_calls))
    IN  IF all_match_ids = <<>> THEN returns(W1, "False")
        ELSE IF completed_match_ids = <<>> \/ matches_to_fetch = <<>>
             THEN returns(ledger(W1, mark_collection_complete(W1.S, "match_details")),
                          "True")
             ELSE returns(ledger(W2, mark_collection_complete(W2.S, "match_details")),
                          "True")

collect_league_referees(W) ==
    LET W1 == ledger(W, mark_collection_in_progress(W.S, "referees"))
        already_fetched == Range(W1.S.collections["referees"].ids)
                           \cup Range(get_all_ids(W1, "referees"))
        W2 == request(W1, "referees", 0)
        data == league_roster(api)
        new_referees == Without(data, already_fetched)
        W3 == save_each(W2, "referees", new_referees, [i \in IDs |-> "referee"])
        already1 == already_fetched \cup Range(new_referees)
        W4 == ledger(W3, update_collection_progress(W3.S, "referees",
                  Cardinality(already1), Some(Cardinality(already1)),
                  Some(sorted(already1)), 1))
    IN  IF is_collection_complete(W.S, "referees") THEN returns(W, "True")
        ELSE IF data = <<>> THEN returns(W2, "False")
             ELSE returns(ledger(W4, mark_collection_complete(W4.S, "referees")), "True")

\* itertools.combinations(team_ids, 2)
RECURSIVE combinations(_)
combinations(seq) ==
    IF Len(seq) < 2 THEN <<>>
    ELSE [k \in 1..(Len(seq) - 1) |-> <<seq[1], seq[k + 1]>>] \o combinations(Tail(seq))

\* The matches between the two teams of a pair, in one home/away order only.
h2h_matches_home_first(all_matches, pair) ==
    LET between(match) == match.homeID = pair[1] /\ match.awayID = pair[2]
    IN  SelectSeq(all_matches, between)

\* The matches between the two teams of a pair, home and away in either order.
h2h_matches(all_matches, pair) ==
    LET between(match) ==
            \/ match.homeID = pair[1] /\ match.awayID = pair[2]
            \/ match.homeID = pair[2] /\ match.awayID = pair[1]
    IN  SelectSeq(all_matches, between)

\* The for loop of collect_h2h_data over the team pairs.
RECURSIVE h2h_loop(_, _, _, _)
h2h_loop(W, team_pairs, all_matches, h2h_count) ==
    IF team_pairs = <<>> THEN [W |-> W, h2h_count |-> h2h_count]
    ELSE LET pair == Head(team_pairs)
             found == h2h_matches(all_matches, pair)
         IN  IF found # <<>>
             THEN h2h_loop(save_json(W, <<"h2h">> \o h2h_file(pair[1], pair[2]), found),
                           Tail(team_pairs), all_matches, h2h_count + 1)
             ELSE h2h_loop(W, Tail(team_pairs), all_matches, h2h_count)

\* H2H files are generated from the match files: a stored match document is
\* its ID, its two teams, and what the file holds.
collect_h2h_data(W) ==
    LET W1 == ledger(W, mark_collection_in_progress(W.S, "h2h"))
        team_ids == get_all_ids(W1, "teams")
        match_ids == get_all_ids(W1, "matches")
        all_matches == [i \in 1..Len(match_ids) |->
            [id |-> match_ids[i],
             homeID |-> Fixture[match_ids[i]].homeID,
             awayID |-> Fixture[match_ids[i]].awayID,
             data |-> load_json(W1, <<"matches", match_ids[i]>>)[1].data,
             saved_at |-> load_json(W1, <<"matches", match_ids[i]>>)[1].saved_at]]
        r == h2h_loop(W1, combinations(team_ids), all_matches, 0)
        S3 == [r.W.S EXCEPT !.collections["h2h"].generated = r.h2h_count]
    IN  IF Len(team_ids) < 2 \/ all_matches = <<>> THEN returns(W1, "False")
        ELSE returns(ledger(r.W, mark_collection_complete(S3, "h2h")), "True")

\* StatsCollector.collect_all: the two global files, no ledger entry.
collect_stats(W) ==
    LET W1 == save_json(request(W, "btts_stats", 0), <<"btts_stats", 0>>, "btts")
    IN  returns(save_json(request(W1, "over25_stats", 0), <<"over25_stats", 0>>, "over25"),
                "True")

\* ------------------------------------------------------------ run_ingestion
\* The collectors in the order the entry points call them; the bulk update
\* has no StatsCollector.
RunSequence(m) ==
    <<"league_stats", "league_table", "teams", "team_lastx", "matches",
      "match_details", "players", "referees", "h2h">>
    \o (IF m = "bulk" THEN <<>> ELSE <<"stats">>) \o <<"mark_complete", "done">>

\* Mutant: a collector that returns False ends the run.
next_stage_abort(stage, value, m) ==
    IF value = "False" THEN "done"
    ELSE LET i == CHOOSE k \in 1..Len(RunSequence(m)) : RunSequence(m)[k] = stage
         IN  RunSequence(m)[i + 1]

\* What runs after `stage`: the return value of a collector is not looked at.
next_stage(stage, value, m) ==
    LET i == CHOOSE k \in 1..Len(RunSequence(m)) : RunSequence(m)[k] = stage
    IN  RunSequence(m)[i + 1]

\* A collector has run: the world it leaves behind.
Collect(stage, W1) ==
    /\ pc = stage
    /\ pc' = next_stage(stage, W1.ret, mode)
    /\ state' = W1.S
    /\ state_file' = W1.file
    /\ last_saved' = IF W1.file.kind = "json" THEN W1.file.data ELSE last_saved
    /\ store' = W1.store
    /\ clock' = W1.clock
    /\ SetLim(W1.L)
    /\ op' = stage
    /\ ret' = W1.ret
    /\ requests' = W1.reqs
    /\ trace' = IF stage = "mark_complete" THEN trace
                ELSE Append(trace, [stage |-> stage, ret |-> W1.ret])
    /\ UNCHANGED <<client_vars, before, window_calls, alive, ops, call, api, prev_api, run,
                   snap, mode, dir_vars>>

CollectLeagueStats == Collect("league_stats", collect_league_stats(World))
CollectLeagueTable == Collect("league_table", collect_league_table(World))
CollectLeagueTeams == Collect("teams", collect_league_teams(World))
CollectTeamLastx == Collect("team_lastx", collect_team_lastx(World))
CollectLeagueMatches == Collect("matches", collect_league_matches(World))
CollectMatchDetails == Collect("match_details", collect_match_details(World))
CollectLeaguePlayers == Collect("players", collect_league_players(World))
CollectLeagueReferees == Collect("referees", collect_league_referees(World))
CollectH2H == Collect("h2h", collect_h2h_data(World))
CollectStats == Collect("stats", collect_stats(World))
FinishRun == Collect("mark_complete", ledger(World, mark_complete(state)))

\* A new process starts a run: RateLimiter(), DataManager(), IngestionState().
StartRun ==
    /\ pc \in {"idle", "done"}
    /\ run < MaxRuns
    /\ run' = run + 1
    /\ pc' = "league_stats"
    /\ state' = load_or_initialize(state_file)
    /\ SetLim(load_state(Lim))
    /\ snap' = IF pc = "done" THEN [state |-> state, store |-> store] ELSE snap
    /\ prev_api' = IF pc = "done" THEN api ELSE prev_api
    /\ op' = "start_run"
    /\ trace' = <<>>
    /\ requests' = <<>>
    /\ UNCHANGED <<ret, client_vars, before, window_calls, state_file, alive, last_saved, ops, call,
                   api, store, clock, mode, dir_vars>>

\* Between two runs the upstream data grows by one step: one more team,
\* player and referee, one match listed or completed, or per-ID data that
\* appears or disappears.
Changes(a) ==
    {[a EXCEPT !.roster = @ + 1] : x \in {r \in {a.roster} : r < MaxId}}
    \cup {[a EXCEPT !.matches[i] = "incomplete"] : i \in {j \in IDs : a.matches[j] = "absent"}}
    \cup {[a EXCEPT !.matches[i] = "complete"] : i \in {j \in IDs : a.matches[j] = "incomplete"}}
    \cup {[a EXCEPT !.nodata = IF @ = {} THEN {1} ELSE {}]}

UpstreamChange(a) ==
    /\ pc = "done"
    /\ run < MaxRuns
    /\ pc' = "idle"
    /\ api' = a
    /\ prev_api' = api
    /\ snap' = [state |-> state, store |-> store]
    /\ op' = "upstream_change"
    /\ UNCHANGED <<limiter_vars, ret, client_vars, before, window_calls, ledger_vars, store, clock, run,
                   mode, trace, requests, dir_vars>>

\* ------------------------------------------------ DataManager, file by file
\* A name is a sequence of characters.
Lower == [ch \in {"A", "B", "a", "b", " ", "_", "-", "!"} |->
            CASE ch = "A" -> "a" [] ch = "B" -> "b" [] OTHER -> ch]
isalnum(ch) == ch \in {"A", "B", "a", "b"}

\* The display names the callers pass in.
Names == {<<"A", " ", "b">>, <<"B", "!">>}

\* _sanitize_filename: spaces to underscores, only alphanumerics, '_' and '-'
\* kept, lower-cased, cut to NameLimit characters.
sanitize_filename(name) ==
    LET spaced == [i \in 1..Len(name) |-> IF name[i] = " " THEN "_" ELSE name[i]]
        safe_chars == SelectSeq(spaced, LAMBDA ch : isalnum(ch) \/ ch \in {"_", "-"})
        result == [i \in 1..Len(safe_chars) |-> Lower[safe_chars[i]]]
    IN  SubSeq(result, 1, Min({Len(result), NameLimit}))

\* teams, players and referees: <id>_<safe name>.json
NamedKinds == {"teams", "players", "referees"}
DirKinds == NamedKinds \cup {"matches", "h2h"}

\* The file names of a directory: <<id, safe name>>, <<match id>>, and for
\* h2h <<a, b>> (a_vs_b.json) in either order.
FileNames(kind) ==
    IF kind \in NamedKinds THEN {<<i, sanitize_filename(n)>> : i \in IDs, n \in Names}
    ELSE IF kind = "matches" THEN {<<i>> : i \in IDs}
    ELSE {<<a, b>> : a \in IDs, b \in IDs}

NoFile == [kind |-> "absent"]
TornFile == [kind |-> "torn"]
EmptyDir == [kind \in DirKinds |-> [f \in FileNames(kind) |-> NoFile]]

\* _save_json: open(filepath, 'w') + json.dump write this one file whole
\* ("ok"), not at all ("unwritten": open() raised, the exception is caught),
\* or truncate it and leave it partly written ("torn": json.dump raised, or
\* the process died in the write).
write_file_clearing(d, kind, file, doc, outcome) ==
    CASE outcome = "ok" -> [d EXCEPT ![kind][file] = [kind |-> "json", doc |-> doc]]
      [] outcome = "torn" -> [d EXCEPT ![kind] = [f \in FileNames(kind) |-> TornFile]]
      [] OTHER -> d

write_file(d, kind, file, doc, outcome) ==
    CASE outcome = "ok" -> [d EXCEPT ![kind][file] = [kind |-> "json", doc |-> doc]]
      [] outcome = "torn" -> [d EXCEPT ![kind][file] = TornFile]
      [] OTHER -> d

\* _load_json: None when the file is absent or does not parse.
read_file(d, kind, file) ==
    IF d[kind][file].kind = "json" THEN Some(d[kind][file].doc) ELSE None

\* glob("<id>_*.json"): the files of this ID, in the file system's order.
glob(d, kind, id) == {f \in FileNames(kind) : f[1] = id /\ d[kind][f] # NoFile}

\* load_team, load_player, load_referee: the first file the glob yields; any
\* of them can be the first.  The set of values the call can return.
load_named(d, kind, id) ==
    IF glob(d, kind, id) = {} THEN {None}
    ELSE {read_file(d, kind, f) : f \in glob(d, kind, id)}

\* get_all_team_ids, get_all_player_ids, get_all_referee_ids: one entry per
\* file, sorted.
RECURSIVE ids_of_files(_)
ids_of_files(files) ==
    IF files = {} THEN <<>>
    ELSE LET f == CHOOSE g \in files : \A h \in files : g[1] <= h[1]
         IN  <<f[1]>> \o ids_of_files(files \ {f})

get_all_named_ids(d, kind) ==
    ids_of_files({f \in FileNames(kind) : d[kind][f] # NoFile})

load_h2h(d, team_a_id, team_b_id) == read_file(d, "h2h", h2h_file(team_a_id, team_b_id))

NoSave == [kind |-> "none"]

\* One save_* call: the document is the data with _saved_at set to the clock.
\* The n-th call is given the n-th payload.
SaveFile(kind, args, file, outcome) ==
    /\ ops < MaxOps
    /\ ops' = ops + 1
    /\ clock' = clock + 1
    /\ LET doc == [data |-> ops + 1, saved_at |-> clock]
       IN  /\ dir' = write_file(dir, kind, file, doc, outcome)
           /\ saved' = [kind |-> kind, args |-> args, file |-> file, doc |-> doc,
                        outcome |-> outcome]
    /\ dir_before' = dir
    /\ op' = "save"
    /\ UNCHANGED <<failing, limiter_vars, ret, client_vars, before, window_calls, state, state_file,
                   alive, last_saved, call, api, prev_api, store, pc, run, snap, mode, trace,
                   requests>>

SaveTeam(id, name, outcome) ==
    SaveFile("teams", <<id, name>>, <<id, sanitize_filename(name)>>, outcome)
SavePlayer(id, name, outcome) ==
    SaveFile("players", <<id, name>>, <<id, sanitize_filename(name)>>, outcome)
SaveReferee(id, name, outcome) ==
    SaveFile("referees", <<id, name>>, <<id, sanitize_filename(name)>>, outcome)
SaveMatch(id, outcome) == SaveFile("matches", <<id>>, <<id>>, outcome)
SaveH2H(team_a_id, team_b_id, outcome) ==
    SaveFile("h2h", <<team_a_id, team_b_id>>, h2h_file(team_a_id, team_b_id), outcome)

InitDir ==
    /\ dir = EmptyDir
    /\ dir_before = dir
    /\ saved = NoSave

\* ------------------------------------------------- one collector on its own
\* A collector called once on a store and a ledger left by earlier runs, which
\* need not agree with each other (a ledger started afresh over old files,
\* files removed by hand, a run that was interrupted).
StagedStages == {"teams", "matches", "players", "match_details", "referees"}
Earlier == 0 - 1

\* The ledger with the ID list L and the status s in each of these stages.
StageLedger(L, s) ==
    [create_initial_state EXCEPT
        !.collections = [c \in Stages |->
            IF c \in StagedStages THEN [@[c] EXCEPT !.status = s, !.ids = sorted(L)]
            ELSE @[c]]]

\* The store with a team, match, player and referee file for every ID that md gives a
\* status (the match file saying that status) and a match-details file for
\* every ID in DD, all written before this process started.
StageStore(md, DD) ==
    [k \in FileKeys |->
        IF k[1] \in {"teams", "players", "referees"} /\ md[k[2]] # "absent"
        THEN Some([data |-> CASE k[1] = "teams" -> "team" [] k[1] = "players" -> "player"
                                 [] OTHER -> "referee",
                   saved_at |-> Earlier])
        ELSE IF k[1] = "matches" /\ md[k[2]] # "absent"
        THEN Some([data |-> md[k[2]], saved_at |-> Earlier])
        ELSE IF k[1] = "match_details" /\ k[2] \in DD
        THEN Some([data |-> "details", saved_at |-> Earlier])
        ELSE None]

\* The upstream lists the IDs 1..r everywhere, every match complete; the paged
\* endpoints are up with or without a pager in their answers, or their first
\* page is out, or their second.
StageApis ==
    {[roster |-> r, matches |-> [i \in IDs |-> IF i <= r THEN "complete" ELSE "absent"],
      nodata |-> nd, down |-> e.down, pager |-> e.pager] :
        r \in 0..MaxId, nd \in SUBSET {1},
        e \in {[down |-> {}, pager |-> TRUE], [down |-> {}, pager |-> FALSE],
               [down |-> PagedStages \X {1}, pager |-> TRUE],
               [down |-> PagedStages \X {2}, pager |-> TRUE]}}

RunAlone(stage, W1) ==
    /\ pc = "idle"
    /\ run = 0
    /\ pc' = "done"
    /\ snap' = [state |-> state, store |-> store]
    /\ state' = W1.S
    /\ state_file' = W1.file
    /\ last_saved' = IF W1.file.kind = "json" THEN W1.file.data ELSE last_saved
    /\ store' = W1.store
    /\ clock' = W1.clock
    /\ SetLim(W1.L)
    /\ op' = stage
    /\ ret' = W1.ret
    /\ requests' = W1.reqs
    /\ trace' = <<[stage |-> stage, ret |-> W1.ret]>>
    /\ UNCHANGED <<client_vars, before, window_calls, alive, ops, call, api, prev_api, run,
                   mode, dir_vars>>

RunTeams == RunAlone("teams", collect_league_teams(World))
RunMatches == RunAlone("matches", collect_league_matches(World))
RunPlayers == RunAlone("players", collect_league_players(World))
RunMatchDetails == RunAlone("match_details", collect_match_details(World))
RunReferees == RunAlone("referees", collect_league_referees(World))

\* ---------------------------------------------------------- specifications
NoUpstream ==
    [roster |-> 0, matches |-> [i \in IDs |-> "absent"], nodata |-> {}, down |-> {},
     pager |-> TRUE]

InitProgram ==
    /\ InitDir
    /\ failing = {}
    /\ now = 0
    /\ current_hour_start = 0
    /\ calls_this_hour = 0
    /\ limiter_file = [current_hour_start |-> 0, calls_this_hour |-> 0]
    /\ op = "init"
    /\ ret = "None"
    /\ get_pc = "idle"
    /\ attempt = 0
    /\ max_retries = 0
    /\ responses = <<>>
    /\ sleeps = <<>>
    /\ waits = 0
    /\ before = [op |-> "init", now |-> 0, current_hour_start |-> 0, calls_this_hour |-> 0]
    /\ window_calls = 0
    /\ state = create_initial_state
    /\ state_file = AbsentFile
    /\ alive = TRUE
    /\ last_saved = create_initial_state
    /\ ops = 0
    /\ call = [stage |-> "none", ids |-> None]
    /\ store = EmptyStore
    /\ clock = 0
    /\ pc = "idle"
    /\ run = 0
    /\ snap = [state |-> create_initial_state, store |-> EmptyStore]
    /\ trace = <<>>
    /\ requests = <<>>

Modes == {"single", "bulk"}

Init == InitProgram /\ api = NoUpstream /\ prev_api = api /\ mode = "single"

\* The state a lone collector finds.
InitLoneCollector ==
    /\ now = 0
    /\ current_hour_start = 0
    /\ calls_this_hour = 0
    /\ limiter_file = [current_hour_start |-> 0, calls_this_hour |-> 0]
    /\ op = "init"
    /\ ret = "None"
    /\ get_pc = "idle"
    /\ attempt = 0
    /\ max_retries = 0
    /\ responses = <<>>
    /\ sleeps = <<>>
    /\ waits = 0
    /\ before = [op |-> "init", now |-> 0, current_hour_start |-> 0, calls_this_hour |-> 0]
    /\ window_calls = 0
    /\ \E L \in SUBSET IDs, s \in {"pending", "in_progress", "complete"} :
          state = StageLedger(L, s)
    /\ state_file = [kind |-> "json", data |-> state]
    /\ alive = TRUE
    /\ last_saved = state
    /\ ops = 0
    /\ call = [stage |-> "none", ids |-> None]
    /\ \E md \in [IDs -> MatchStatuses], DD \in SUBSET {1} : store = StageStore(md, DD)
    /\ clock = 0
    /\ pc = "idle"
    /\ run = 0
    /\ snap = [state |-> state, store |-> store]
    /\ trace = <<>>
    /\ requests = <<>>
    /\ api \in StageApis
    /\ InitDir
    /\ prev_api = api
    /\ mode = "single"

InitCollector == InitLoneCollector /\ failing = {}

\* A disk on which no file of entity ID 1 can be written.
FaultyDisks == {{k \in FileKeys : k[2] = 1}}
InitFaultyDisk == InitLoneCollector /\ failing \in FaultyDisks

InitRun == InitProgram /\ api \in Apis /\ prev_api = api /\ mode \in Modes

NextLimiter ==
    \/ Tick
    \/ CanMakeRequest
    \/ WaitIfNeeded
    \/ RecordRequest
    \/ RestartLimiter

SpecLimiter == Init /\ [][NextLimiter]_vars

NextClient ==
    \/ Tick
    \/ \E m \in 1..MaxRetries : Get(m)
    \/ \E o \in Outcomes : Attempt(o)

SpecClient == Init /\ [][NextClient]_vars

NextLedger ==
    \/ \E c \in DrivenStages, o \in SaveOutcomes : MarkInProgress(c, o)
    \/ \E c \in DrivenStages, o \in SaveOutcomes : MarkCollectionComplete(c, o)
    \/ \E c \in DrivenStages, o \in SaveOutcomes :
          \E a \in {x \in ProgressArgs : c \in IdStages \/ x.ids = None} : UpdateProgress(c, a, o)
    \/ \E o \in SaveOutcomes : MarkComplete(o)
    \/ \E in_save \in BOOLEAN : Kill(in_save)
    \/ Restart

SpecLedger == Init /\ [][NextLedger]_vars

NextRun ==
    \/ StartRun
    \/ CollectLeagueStats
    \/ CollectLeagueTable
    \/ CollectLeagueTeams
    \/ CollectTeamLastx
    \/ CollectLeagueMatches
    \/ CollectMatchDetails
    \/ CollectLeaguePlayers
    \/ CollectLeagueReferees
    \/ CollectH2H
    \/ CollectStats
    \/ FinishRun
    \/ \E a \in Changes(api) : UpstreamChange(a)

SpecRun == InitRun /\ [][NextRun]_vars

NextStore ==
    \E id \in IDs, outcome \in SaveOutcomes :
        \/ \E name \in Names : SaveTeam(id, name, outcome)
        \/ \E name \in Names : SavePlayer(id, name, outcome)
        \/ \E name \in Names : SaveReferee(id, name, outcome)
        \/ SaveMatch(id, outcome)
        \/ \E other \in IDs \ {id} : SaveH2H(id, other, outcome)

SpecStore == Init /\ [][NextStore]_vars

NextCollector ==
    \/ RunTeams
    \/ RunMatches
    \/ RunPlayers
    \/ RunMatchDetails
    \/ RunReferees

SpecCollector == InitCollector /\ [][NextCollector]_vars

SpecFaultyDisk == InitFaultyDisk /\ [][NextCollector]_vars

\* ------------------------------------------------- claims: limiter, client
AllIn(seq, S) == \A i \in 1..Len(seq) : seq[i] \in S
OtherStatuses == HttpStatuses \ {"200", "429", "403"}
Backoff(n) == [i \in 1..n |-> Pow(BackoffBase, i - 1)]

\* C1: across any sequence of APIClient.get() calls, calls_this_hour never
\* exceeds requests_per_hour.  (The code checks the quota once per get() and
\* records every attempt, so retries push the counter past the limit.)
C1_QuotaNeverExceeded == calls_this_hour <= requests_per_hour

\* C6: when every attempt of a get() receives an HTTP status other than 200,
\* 429 and 403, the call makes exactly max_retries attempts, sleeps
\* 2^0, 2^1, ... only between attempts (none after the last) and returns None.
C6_RetryCeiling ==
    (responses # <<>> /\ AllIn(responses, OtherStatuses)) =>
        IF get_pc = "returned"
        THEN /\ Len(responses) = max_retries
             /\ sleeps = Backoff(max_retries - 1)
             /\ ret = "None"
        ELSE /\ Len(responses) < max_retries
             /\ sleeps = Backoff(Len(responses))

C6_Witness ==
    /\ get_pc = "returned"
    /\ max_retries = 3
    /\ responses = <<"500", "500", "500">>
    /\ sleeps = <<1, 2>>

\* C7: a get() whose only non-200 responses were 429s never returns None.
\* (The code's `continue` after a 429 consumes a pass of the retry loop, so
\* max_retries 429s in a row end in `return None`.)
C7_429NeverFails ==
    (get_pc = "returned" /\ AllIn(responses, {"200", "429"})) => ret # "None"

\* C8: within one get() nothing follows a 200 response (the call returns the
\* parsed body) or a 403 response (the call returns None), however many
\* attempts remain.
C8_NoAttemptAfter200Or403 ==
    \A i \in 1..Len(responses) :
        responses[i] \in {"200", "403"} =>
            /\ i = Len(responses)
            /\ get_pc = "returned"
            /\ ret = (IF responses[i] = "200" THEN "json" ELSE "None")

C8_Witness ==
    /\ get_pc = "returned"
    /\ max_retries = 3
    /\ responses = <<"403">>
    /\ ret = "None"

\* The counter was at the limit inside the window when the call was made.
LimitedCall(b) ==
    /\ b.calls_this_hour >= requests_per_hour
    /\ b.now < b.current_hour_start + Hour

\* C9 as stated: a wait_if_needed() called at the limit inside the window
\* returns no earlier than current_hour_start + 1 hour and with the window
\* reset (calls_this_hour = 0, current_hour_start re-anchored).
C9_ReturnsWithWindowReset ==
    (op = "wait_if_needed" /\ LimitedCall(before)) =>
        /\ now >= before.current_hour_start + Hour
        /\ calls_this_hour = 0
        /\ current_hour_start = now

\* C9 as amended: such a call returns no earlier than current_hour_start + 1
\* hour; it returns either having slept and reset the window, or - when the
\* clock had already passed the boundary by the time the wait was computed -
\* at once with the stale window untouched; either way the record_request()
\* that follows leaves calls_this_hour = 1.
C9_BlockedUntilBoundary ==
    (op = "wait_if_needed" /\ LimitedCall(before)) =>
        /\ now >= before.current_hour_start + Hour
        /\ \/ ret = "waited" /\ calls_this_hour = 0 /\ current_hour_start = now
           \/ /\ ret = "None"
              /\ now > before.current_hour_start + Hour
              /\ calls_this_hour = before.calls_this_hour
              /\ current_hour_start = before.current_hour_start

C9_NextRecordIsFirst ==
    (before.op = "wait_if_needed" /\ LimitedCall(before) /\ op' = "record_request")
        => calls_this_hour' = 1

C9_WaitThenRecord == []C9_BlockedUntilBoundary /\ [][C9_NextRecordIsFirst]_vars

C9_Witness ==
    /\ op = "wait_if_needed"
    /\ LimitedCall(before)
    /\ ret = "waited"
    /\ calls_this_hour = 0

\* C10: a can_make_request() made when current_hour_start is at least one hour
\* in the past returns True with calls_this_hour = 0 and current_hour_start =
\* now, whatever the counter was; record_request() and wait_if_needed() make
\* the same rollover check first (so they start from the reset window).
C10_Rollover ==
    before.now >= before.current_hour_start + Hour =>
        /\ op = "can_make_request" =>
              ret = "True" /\ calls_this_hour = 0 /\ current_hour_start = now
        /\ op = "wait_if_needed" =>
              ret = "None" /\ calls_this_hour = 0 /\ current_hour_start = now
        /\ op = "record_request" =>
              calls_this_hour = 1 /\ current_hour_start = now

C10_Witness ==
    /\ op = "can_make_request"
    /\ before.now >= before.current_hour_start + Hour
    /\ before.calls_this_hour > requests_per_hour
    /\ ret = "True"
    /\ calls_this_hour = 0

IdSet(S, c) == Range(S.collections[c].ids)
StrictlySorted(seq) == \A i \in 1..(Len(seq) - 1) : seq[i] < seq[i + 1]
LedgerCalls == {"mark_collection_in_progress", "mark_collection_complete",
                "update_collection_progress", "mark_complete"}

\* C2: whenever the process is killed (also inside the write of the state
\* file) and restarted, the ledger the new process loads holds, for every
\* stage, at least the IDs of the last save that completed.  (save() truncates
\* the file in place, and _load_or_initialize answers an unreadable file with
\* a fresh, empty ledger.)
C2_RestartKeepsSavedIds ==
    op = "restart" =>
        \A c \in IdStages : IdSet(last_saved, c) \subseteq IdSet(state, c)

\* C3: on one IngestionState, update_collection_progress(stage, ids=X) leaves
\* the stage's ID list the sorted, duplicate-free union of what it held and X,
\* and no mark_* or update call removes an ID from any stage's list.
C3_UpdateMerges ==
    (op' = "update_collection_progress" /\ call'.ids # None /\ call'.stage \in IdStages) =>
        /\ IdSet(state', call'.stage) = IdSet(state, call'.stage) \cup Range(call'.ids[1])
        /\ StrictlySorted(state'.collections[call'.stage].ids)

C3_NothingRemoved ==
    op' \in LedgerCalls => \A c \in Stages : IdSet(state, c) \subseteq IdSet(state', c)

C3_IdsUnionOnly == [][C3_UpdateMerges /\ C3_NothingRemoved]_vars

C3_Witness ==
    /\ op = "update_collection_progress"
    /\ call = [stage |-> "matches", ids |-> Some(<<1, 1>>)]
    /\ state.collections["matches"].ids = <<1, 2>>

\* -------------------------------------------------------------- claims: runs
\* The run that just finished and the one before it saw the same upstream data.
SecondOfTwo == pc = "done" /\ run >= 2 /\ prev_api = api

\* C4: after the second of two runs in a row against the same upstream data,
\* every stage's ID set in the ledger is what the first run left.
C4_IdSetsUnchanged ==
    SecondOfTwo => \A c \in IdStages : IdSet(state, c) = IdSet(snap.state, c)

C4_Witness ==
    /\ SecondOfTwo
    /\ IdSet(state, "teams") = IDs
    /\ IdSet(state, "matches") = IDs
    /\ IdSet(state, "match_details") # {}
    /\ IdSet(state, "match_details") # IDs

\* What a file says once every _saved_at in it is taken out: its own and, in
\* the H2H file, those of the match documents it embeds.
Unstamped(k, f) ==
    IF f = None THEN None
    ELSE IF k[1] = "h2h"
         THEN Some([i \in DOMAIN f[1].data |-> [f[1].data[i] EXCEPT !.saved_at = 0]])
         ELSE Some(f[1].data)

WrittenOnce == {"teams", "referees", "match_details"}

\* C5 as stated: after the second of two runs in a row with no new upstream
\* data every entity file is byte-identical to what the first run left.
C5_FilesByteIdentical == SecondOfTwo => store = snap.store

\* C5, amended: after the second of two runs in a row with no new upstream
\* data every entity file holds what it held after the first run except for
\* the _saved_at timestamps (its own and those of the match documents an H2H
\* file embeds); the team, referee and match-details files are byte-identical.
C5_FilesSameButStamps ==
    SecondOfTwo =>
        \A k \in FileKeys :
            /\ Unstamped(k, store[k]) = Unstamped(k, snap.store[k])
            /\ k[1] \in WrittenOnce => store[k] = snap.store[k]

C5_Witness ==
    /\ SecondOfTwo
    /\ snap.store[<<"matches", 1>>] # None
    /\ store[<<"matches", 1>>] # snap.store[<<"matches", 1>>]
    /\ store[<<"players", 1>>] # snap.store[<<"players", 1>>]
    /\ store[<<"h2h", 1, 2>>] # None
    /\ store[<<"match_details", 2>>] # None
    /\ store[<<"teams", 1>>] # None

\* The fixed sequence, by collector method: league-info is league_stats then
\* league_table, teams is teams then team_lastx, global-stats is stats.
FixedSequence ==
    <<"league_stats", "league_table", "teams", "team_lastx", "matches",
      "match_details", "players", "referees", "h2h", "stats">>
Executed == [i \in 1..Len(trace) |-> trace[i].stage]
IsPrefix(s, t) == Len(s) <= Len(t) /\ SubSeq(t, 1, Len(s)) = s

\* C12: in every run, single-league and bulk alike, the collectors execute
\* exactly once each in the fixed order league-info, teams, matches,
\* match-details, players, referees, H2H, global-stats.  (update_all_leagues
\* constructs and runs no StatsCollector.)
C12_FixedSequenceEveryRun ==
    /\ IsPrefix(Executed, FixedSequence)
    /\ pc = "done" => Executed = FixedSequence

EntrySequence == SubSeq(RunSequence(mode), 1, Len(RunSequence(mode)) - 2)

C14_FirstPageFailureIsFalse ==
    (pc = "done" /\ op \in PagedStages /\ <<op, 1>> \in api.down /\ requests # <<>>) =>
        /\ ret = "False"
        /\ state.collections[op].status # "complete"

\* C15: the top-level status stored in the ledger never disagrees with the
\* status derived from the stages: a stored 'complete' implies that every
\* stage is complete, i.e. that get_overall_status() returns 'complete'.
\* (mark_complete() stores 'complete' at the end of every run, whatever the
\* collectors returned and whatever the stage statuses are.)
C15_StoredStatusIsDerived ==
    state.status = "complete" => get_overall_status(state) = "complete"

\* What a lone collector found: the IDs with a file of a kind, and the ID
\* list of a stage in the ledger.
OnDiskAtStart(kind) == {i \in IDs : snap.store[<<kind, i>>] # None}
InLedgerAtStart(c) == Range(snap.state.collections[c].ids)

\* C19: the matches stage with ledger match_ids = L and status in_progress,
\* and an upstream that answers with one final page holding the IDs P (P not
\* empty): the call ends with ledger match_ids = L union P, status complete,
\* fetched = |P union IDs on disk at the start|, and a match file written in
\* this call for every ID of P, also for the IDs that were known before.
C19_ResumeMergesFinalPage ==
    LET P == Range(Page(league_matches(api), 1))
        L == InLedgerAtStart("matches")
        D == OnDiskAtStart("matches")
        after == state.collections["matches"]
    IN  (/\ pc = "done"
         /\ op = "matches"
         /\ snap.state.collections["matches"].status = "in_progress"
         /\ <<"matches", 1>> \notin api.down
         /\ P # {}
         /\ max_page(league_matches(api)) = 1) =>
            /\ ret = "True"
            /\ after.ids = sorted(L \cup P)
            /\ after.status = "complete"
            /\ after.fetched = Cardinality(P \cup D)
            /\ \A i \in P :
                  /\ store[<<"matches", i>>] # None
                  /\ store[<<"matches", i>>][1].saved_at >= 0
                  /\ store[<<"matches", i>>][1].data = api.matches[i]
            /\ \A i \in IDs \ P : store[<<"matches", i>>] = snap.store[<<"matches", i>>]

\* The ledger knew match 2, the disk held match 1, and the final page lists
\* match 1 again.
C19_Witness ==
    /\ pc = "done"
    /\ op = "matches"
    /\ snap.state.collections["matches"].status = "in_progress"
    /\ InLedgerAtStart("matches") = {2}
    /\ 1 \in OnDiskAtStart("matches")
    /\ snap.store[<<"matches", 1>>][1].saved_at = Earlier
    /\ league_matches(api) = <<1>>
    /\ <<"matches", 1>> \notin api.down
    /\ state.collections["matches"].ids = <<1, 2>>
    /\ state.collections["matches"].status = "complete"
    /\ store[<<"matches", 1>>][1].saved_at >= 0

\* C20: MatchDetailsCollector requests details (get_match) only for match
\* IDs whose stored match record has status 'complete' and that, at the start
\* of the run, are neither in the ledger's match_details ID list nor present
\* as a match-detail file; each such ID is requested at most once per run.
C20_DetailsOnlyForNewCompleted ==
    (pc = "done" /\ op = "match_details") =>
        /\ \A k \in 1..Len(requests) :
              LET i == requests[k][2]
              IN  /\ requests[k][1] = "match"
                  /\ i \in OnDiskAtStart("matches")
                  /\ snap.store[<<"matches", i>>][1].data = "complete"
                  /\ i \notin InLedgerAtStart("match_details")
                  /\ i \notin OnDiskAtStart("match_details")
        /\ \A j \in 1..Len(requests), k \in 1..Len(requests) :
              j # k => requests[j] # requests[k]

\* Both matches complete on disk, the details of match 1 already on disk:
\* only match 2 is requested.
C20_Witness ==
    /\ pc = "done"
    /\ op = "match_details"
    /\ snap.store[<<"matches", 1>>] # None
    /\ snap.store[<<"matches", 1>>][1].data = "complete"
    /\ snap.store[<<"matches", 2>>] # None
    /\ snap.store[<<"matches", 2>>][1].data = "complete"
    /\ 1 \in OnDiskAtStart("match_details")
    /\ InLedgerAtStart("match_details") = {}
    /\ requests = <<<<"match", 2>>>>

\* C21: when the teams (respectively referees) stage is marked complete,
\* collect_league_teams (respectively collect_league_referees) returns True
\* without making any API request and leaves the ledger, the rate limiter's
\* counter and the store unchanged.
C21_CompleteStageShortCircuits ==
    [][(/\ pc = "idle"
        /\ pc' = "done"
        /\ op' \in {"teams", "referees"}
        /\ state.collections[op'].status = "complete") =>
           /\ ret' = "True"
           /\ requests' = <<>>
           /\ state' = state
           /\ state_file' = state_file
           /\ store' = store
           /\ calls_this_hour' = calls_this_hour
           /\ current_hour_start' = current_hour_start
           /\ limiter_file' = limiter_file]_vars

\* The referees stage complete with nothing on disk and the upstream listing
\* a referee: the collector returned at once.
C21_Witness ==
    /\ pc = "done"
    /\ op = "referees"
    /\ snap.state.collections["referees"].status = "complete"
    /\ snap.store[<<"referees", 1>>] = None
    /\ league_roster(api) # <<>>
    /\ ret = "True"
    /\ requests = <<>>
    /\ store = snap.store
    /\ state = snap.state

\* C23: an entity ID is counted in a stage's ID list only if its file was
\* written: after a collector run in which saves fail, every ID the run added
\* to the ledger's list of the stage has a stored entity file.  (_save_json
\* swallows the exception, save_* returns nothing, and the collector adds the
\* ID without looking.)
C23_TrackedIdsHaveFiles ==
    (pc = "done" /\ op \in StagedStages) =>
        \A i \in Range(state.collections[op].ids) \ InLedgerAtStart(op) :
            store[<<op, i>>] # None

\* --------------------------------------------- claims: APIClient, recording
Recorded(seq) == Cardinality({i \in 1..Len(seq) : seq[i] \in HttpStatuses})

\* C24: within get(), record_request() is called exactly once for every
\* attempt that returns an HTTP response, whatever its status, and not at all
\* for an attempt that ends in a timeout or a connection error; so one get()
\* records between 0 and max_retries requests.  (One record_request() is one
\* more on the counter, counted from 0 when the window has run out.)
C24_OneRecordPerResponse ==
    [][op' = "attempt" =>
          LET outcome == responses'[Len(responses')]
          IN  /\ outcome \in HttpStatuses =>
                    /\ calls_this_hour' = (IF window_over(Lim) THEN 0 ELSE calls_this_hour) + 1
                    /\ limiter_file'.calls_this_hour = calls_this_hour'
              /\ outcome \in Failures =>
                    /\ calls_this_hour' = calls_this_hour
                    /\ current_hour_start' = current_hour_start
                    /\ limiter_file' = limiter_file
              /\ Recorded(responses') <= max_retries]_vars

\* A timeout, an error status and a 200: two requests recorded.
C24_Witness ==
    /\ get_pc = "returned"
    /\ responses = <<"timeout", "500", "200">>
    /\ calls_this_hour = 2
    /\ limiter_file.calls_this_hour = 2

\* C25: wait_if_needed() is invoked exactly once per get() call, before the
\* first HTTP attempt, and never again between the retries of that call, also
\* not after a 429: inside a window no attempt starts a new window or lowers
\* the counter, and none moves the clock to the window's end.
C25_WaitOncePerGet ==
    /\ [](get_pc # "idle" => waits = 1)
    /\ [][op' = "get" => responses' = <<>>]_vars
    /\ [][op' = "attempt" =>
             /\ waits' = waits
             /\ now' = now
             /\ ~window_over(Lim) =>
                   /\ current_hour_start' = current_hour_start
                   /\ calls_this_hour' >= calls_this_hour]_vars

\* A 429 with the quota used up, and the retry goes out at once.
C25_Witness ==
    /\ get_pc = "returned"
    /\ responses = <<"429", "200">>
    /\ waits = 1
    /\ calls_this_hour > requests_per_hour
    /\ ~window_over(Lim)

\* C26: outside the body of a single mutating IngestionState call the ledger
\* on disk equals the ledger in memory: every mark_collection_in_progress,
\* mark_collection_complete and update_collection_progress (and mark_complete)
\* has written the whole ledger when it returns.  (save() catches the
\* exception of a write that fails and returns as after a write that
\* succeeded.)
C26_DiskEqualsMemory ==
    (alive /\ op \in LedgerCalls) => state_file = [kind |-> "json", data |-> state]

\* C27: after a collector run that made n API requests for a stage, the
\* stage's api_calls in the ledger, and total_api_calls, have grown by exactly
\* n, for any number of pages or per-ID fetches.  (The collectors pass their
\* running count to update_collection_progress after every page, and the
\* ledger adds what it is passed: two pages count as 1 + 2.)
C27_ApiCallsGrowByRequests ==
    (pc = "done" /\ op \in StagedStages) =>
        /\ state.collections[op].api_calls =
              snap.state.collections[op].api_calls + Len(requests)
        /\ state.total_api_calls = snap.state.total_api_calls + Len(requests)

\* ---------------------------------------------------------- claims: paging
\* What the endpoint of a paged stage lists, and whether its page j was
\* requested in the last run and answered.
Listed(c) == IF c = "matches" THEN league_matches(api) ELSE league_roster(api)
Answered(c, j) == <<c, j>> \in Range(requests) /\ <<c, j>> \notin api.down

\* C28: the paging loop of the teams, matches and players collectors requests
\* the pages 1, 2, ... in increasing order and ends at the first page whose
\* request fails, whose data is empty, or whose number is >= the reported
\* max_page (1 when there is no pager); so it makes at most max_page requests,
\* and the collector returns.
C28_PagingStopsAtFirstEnd ==
    (pc = "done" /\ op \in PagedStages) =>
        LET k == Len(requests)
            M == max_page(Listed(op))
            goes_on(j) == Answered(op, j) /\ Page(Listed(op), j) # <<>> /\ j < M
        IN  /\ ret \in {"True", "False"}
            /\ \A j \in 1..k : requests[j] = <<op, j>>
            /\ k <= M
            /\ \A j \in 1..(k - 1) : goes_on(j)
            /\ k > 0 => ~goes_on(k)
            /\ k = 0 => op = "teams" /\ snap.state.collections["teams"].status = "complete"

\* Two pages of players with a pager: both requested, in order, then the end.
C28_Witness ==
    /\ pc = "done"
    /\ op = "players"
    /\ api.pager
    /\ api.down = {}
    /\ max_page(Listed("players")) = 2
    /\ requests = <<<<"players", 1>>, <<"players", 2>>>>
    /\ ret = "True"

\* C29: a paged stage is marked complete only if, in that run, every page
\* from 1 up to the reported max_page was fetched successfully; a run whose
\* paging loop stopped on a failed page leaves the stage in_progress.  (After
\* the loop the stage is marked complete whenever any record is known, however
\* the loop ended.)
C29_CompleteOnlyWithAllPages ==
    (/\ pc = "done"
     /\ op \in PagedStages
     /\ requests # <<>>
     /\ state.collections[op].status = "complete") =>
        \A j \in 1..max_page(Listed(op)) : Answered(op, j)

\* ------------------------------------------------------ claims: call totals
RECURSIVE SumApiCalls(_, _)
SumApiCalls(S, cs) ==
    IF cs = {} THEN 0
    ELSE LET c == CHOOSE x \in cs : TRUE
         IN  S.collections[c].api_calls + SumApiCalls(S, cs \ {c})

\* C30: in every ledger state reached from a freshly initialised ledger by
\* collector runs, total_api_calls equals the sum of the api_calls counters
\* of all stages, in memory and in a state file that was written whole.
C30_TotalIsSumOfStages ==
    /\ state.total_api_calls = SumApiCalls(state, Stages)
    /\ state_file.kind = "json" =>
           state_file.data.total_api_calls = SumApiCalls(state_file.data, Stages)

\* Two stages have counted calls.
C30_Witness ==
    /\ state.collections["teams"].api_calls > 0
    /\ state.collections["matches"].api_calls > 0
    /\ state.total_api_calls
           >= state.collections["teams"].api_calls + state.collections["matches"].api_calls

\* ------------------------------------------------------------ claims: H2H
StoredTeams == {i \in IDs : store[<<"teams", i>>] # None}
StoredMatchesBetween(a, b) ==
    {i \in IDs : /\ store[<<"matches", i>>] # None
                 /\ {Fixture[i].homeID, Fixture[i].awayID} = {a, b}}
PairsWithMatches ==
    {t \in StoredTeams \X StoredTeams : t[1] < t[2] /\ StoredMatchesBetween(t[1], t[2]) # {}}

C16_H2HPairCanonical ==
    \A a \in IDs, b \in IDs : a < b =>
        /\ h2h_file(a, b) = <<a, b>>
        /\ h2h_file(b, a) = <<a, b>>
        /\ dir["h2h"][<<b, a>>] = NoFile
        /\ load_h2h(dir, a, b) = load_h2h(dir, b, a)
        /\ (saved.kind = "h2h" /\ saved.args \in {<<a, b>>, <<b, a>>}) =>
              /\ saved.file = <<a, b>>
              /\ \A f \in FileNames("h2h") : f # <<a, b>> => dir["h2h"][f] = dir_before["h2h"][f]
              /\ saved.outcome = "ok" =>
                    /\ load_h2h(dir, a, b) = Some(saved.doc)
                    /\ load_h2h(dir, b, a) = Some(saved.doc)

\* The pair saved as (1, 2) and then as (2, 1): one file, read back both ways.
C16_Witness ==
    /\ saved.kind = "h2h"
    /\ saved.args = <<2, 1>>
    /\ saved.outcome = "ok"
    /\ dir_before["h2h"][<<1, 2>>].kind = "json"
    /\ load_h2h(dir, 1, 2) = Some(saved.doc)
    /\ load_h2h(dir, 2, 1) = Some(saved.doc)

\* C17: re-saving a team, player or referee under an existing ID overwrites
\* its record even when the display name changed: after the save, load_<kind>(id)
\* returns the document just saved and get_all_<kind>_ids() lists the ID
\* exactly once.  (The file name carries the sanitized name: a save under a
\* new name writes a second file and leaves the first.)
C17_ResaveOverwrites ==
    (saved.kind \in NamedKinds /\ saved.outcome = "ok") =>
        LET id == saved.args[1]
            listed == get_all_named_ids(dir, saved.kind)
        IN  /\ load_named(dir, saved.kind, id) = {Some(saved.doc)}
            /\ Cardinality({i \in 1..Len(listed) : listed[i] = id}) = 1

\* C18: a save of one entity touches only that entity's file: after the call
\* has completed, failed or been cut short in the write, every other file of
\* the store has exactly the content it had before the call.
C18_OnlyTargetFileTouched ==
    saved.kind \in DirKinds =>
        \A kind \in DirKinds : \A f \in FileNames(kind) :
            ~(kind = saved.kind /\ f = saved.file) => dir[kind][f] = dir_before[kind][f]

\* A write torn in the file of one player while another player's file stands.
C18_Witness ==
    /\ saved.kind = "players"
    /\ saved.outcome = "torn"
    /\ dir["players"][saved.file] = TornFile
    /\ \E f \in FileNames("players") : f[1] # saved.args[1] /\ dir["players"][f].kind = "json"

====
